---- MODULE Spec2Model ----
(***************************************************************************)
(* Gallery Suite: media upload into a Set (routes/gallery-admin.js), the   *)
(* gallery datastore (database/galleryDatabase.js, database/database.js)   *)
(* and the auto-thumbnail cascade (middleware/autoThumbnailService.js).    *)
(*                                                                         *)
(* Rows of a table are kept in a sequence; the AUTOINCREMENT id of a row   *)
(* is its index.  A path is a triple <<tree, slug, leaf>>; the SQL NULL of *)
(* a path column is the empty tuple, of an id or a number it is 0.  A row   *)
(* that was deleted leaves the value Deleted at its index: an id is never  *)
(* given twice.                                                            *)
(***************************************************************************)
EXTENDS Integers, Sequences, FiniteSets, TLC

\* ---------------------------------------------------------------- bounds
MaxFiles == 2
MaxMedia == 2
MaxStudios == 2
MaxEntries == 3

\* ---------------------------------------------------------------- values
NullPath == <<>>
NullId == 0
NullNum == 0
NullHash == 0
Undefined == 0

StudioNames == {"Acme"}
ModelNames == {"Mia"}
SetNames == {"Summer"}
TwoSetNames == {"Summer", "Winter"}
FileNames == {"a.jpg", "a.mp4"}
Contents == {1, 2}

\* the content of a generated thumbnail or placeholder, of no further interest
Derived == 0

\* seconds of the clip in a video file with the given content
DurationOf(c) == 100 * c - 95

\* bytes of a file with the given content (fs.stat(...).size)
SizeOf(c) == c + 2

\* pixel width sharp reports for a readable image with the given content
WidthOf(c) == c + 4

\* the mimetype the client sends with a file of that name
MimeOf(originalname) ==
  CASE originalname = "a.jpg" -> "image/jpeg"
    [] originalname = "a.mp4" -> "video/mp4"

\* an uploaded file as multer hands it to the handler
File ==
  {[originalname |-> n, content |-> c, mimetype |-> MimeOf(n)] : n \in FileNames, c \in Contents}

RECURSIVE SeqsUpTo(_, _)
SeqsUpTo(S, n) ==
  IF n = 0 THEN {<<>>}
  ELSE LET shorter == SeqsUpTo(S, n - 1)
       IN shorter \cup {Append(s, x) : s \in {t \in shorter : Len(t) = n - 1}, x \in S}

\* slugify(text, {lower: true, strict: true})
createSlug(text) ==
  CASE text = "Acme" -> "acme"
    [] text = "Mia" -> "mia"
    [] text = "Summer" -> "summer"
    [] text = "Winter" -> "winter"

\* path.basename(originalname, path.extname(originalname))
BaseName(originalname) ==
  CASE originalname = "a.jpg" -> "a"
    [] originalname = "a.mp4" -> "a"

\* ---------------------------------------------------------------- state
VARIABLES
  studios,   \* studios table
  models,    \* models table
  sets,      \* sets table
  media,     \* media table
  disk,      \* files under uploads/media and uploads/thumbs: records [path, content]
  up,        \* the bulk upload request in flight, or the answer it has just got
  last,      \* the outcome of the other handler or service call just completed
  procs,     \* requests and service calls running side by side, each at an await
  users      \* users table

vars == <<studios, models, sets, media, disk, up, last, procs, users>>

\* pc, the locals of the handler (setId, set.slug, req.files, i, results) and,
\* once it has answered, the status, the success flag, the uploaded count and
\* the ids of the answer, with the number of files the request came with;
\* temp is the set of indexes of req.files whose file multer stored in
\* uploads/temp is still there
IdleUp ==
  [pc |-> "idle", setId |-> NullId, slug |-> "", files |-> <<>>, i |-> 0,
   results |-> <<>>, status |-> 0, success |-> FALSE, uploaded |-> 0,
   ids |-> <<>>, total |-> 0, temp |-> {}]

\* the request is over: its locals are gone, its answer stays
Answer(status, req) ==
  [IdleUp EXCEPT !.pc = "responded", !.setId = req.setId, !.i = req.i,
                 !.total = Len(req.files), !.status = status, !.temp = req.temp]


\* op, and what is known of the call: the status of its response, whether it
\* returned or threw, the fault that occurred inside it, the levels it passed
\* by and wrote, the media row it was made for, its arguments and its result
NoCall ==
  [op |-> "none", status |-> 0, outcome |-> "none", fault |-> "none",
   skipped |-> {}, written |-> {}, media |-> 0, arg |-> <<>>, ret |-> <<>>,
   offsets |-> {}]

Init ==
  /\ studios = <<>>
  /\ models = <<>>
  /\ sets = <<>>
  /\ media = <<>>
  /\ disk = {}
  /\ up = IdleUp
  /\ last = NoCall
  /\ procs = <<>>
  /\ users = <<>>

\* ------------------------------------------------------------- datastore
\* what a deleted row leaves behind
Deleted == [deleted |-> TRUE]

\* the ids of the rows of a table
Ids(table) == {k \in DOMAIN table : table[k] # Deleted}

\* Database.run: resolves {id: this.lastID, changes: this.changes}
run(table, row) == [table |-> Append(table, row), id |-> Len(table) + 1, changes |-> 1]

\* result.lastID, a property the object run() resolves to does not have
ResultLastID(result) == Undefined

\* UNIQUE(slug) of studios, models and sets
SlugTaken(table, slug) == \E k \in Ids(table) : table[k].slug = slug

getStudioById(id) == IF id \in Ids(studios) THEN {studios[id]} ELSE {}

\* SELECT m.* FROM models m LEFT JOIN studios ... WHERE m.id = ?
getModelById(id) == IF id \in Ids(models) THEN {models[id]} ELSE {}

\* SELECT s.* FROM sets s JOIN models m ON s.model_id = m.id ... WHERE s.id = ?
getSetById(id) ==
  IF id \in Ids(sets) /\ sets[id].model_id \in Ids(models) THEN {sets[id]} ELSE {}

\* variant: the lookup of the set lacks its WHERE id = ?
getSetRowAny(id) == IF sets # <<>> THEN {sets[1]} ELSE {}

\* SELECT * FROM sets WHERE id = ?
getSetRow(id) == IF id \in Ids(sets) THEN {sets[id]} ELSE {}

MediaOfSet(rows, setId) == {k \in Ids(rows) : rows[k].set_id = setId}

RECURSIVE SumSize(_, _)
SumSize(rows, ks) ==
  IF ks = {} THEN 0
  ELSE LET k == CHOOSE x \in ks : TRUE IN rows[k].filesize + SumSize(rows, ks \ {k})

CountType(rows, setId, type) ==
  Cardinality({k \in MediaOfSet(rows, setId) : rows[k].file_type = type})

\* variant: the three subqueries lack their WHERE set_id = ?
updateSetStatsAllMedia(table, rows, setId) ==
  [k \in DOMAIN table |->
    IF k = setId
    THEN [table[k] EXCEPT
            !.image_count = Cardinality({j \in Ids(rows) : rows[j].file_type = "image"}),
            !.video_count = Cardinality({j \in Ids(rows) : rows[j].file_type = "video"}),
            !.total_size_bytes = SumSize(rows, Ids(rows))]
    ELSE table[k]]

\* UPDATE sets SET image_count = (SELECT COUNT(*) ...), video_count = ...,
\*   total_size_bytes = (SELECT COALESCE(SUM(filesize), 0) ...) WHERE id = ?
updateSetStats(table, rows, setId) ==
  [k \in DOMAIN table |->
    IF k = setId
    THEN [table[k] EXCEPT !.image_count = CountType(rows, setId, "image"),
                          !.video_count = CountType(rows, setId, "video"),
                          !.total_size_bytes = SumSize(rows, MediaOfSet(rows, setId))]
    ELSE table[k]]

updateSetThumbnail(table, setId, coverImagePath, coverThumbPath) ==
  [k \in DOMAIN table |->
    IF k = setId
    THEN [table[k] EXCEPT !.cover_image_path = coverImagePath,
                          !.cover_thumb_path = coverThumbPath]
    ELSE table[k]]

\* variant: the UPDATE sets profile_image_path alone
updateModelImageOnly(table, modelId, profileImagePath, profileThumbPath) ==
  [k \in DOMAIN table |->
    IF k = modelId
    THEN [table[k] EXCEPT !.profile_image_path = profileImagePath]
    ELSE table[k]]

updateModelThumbnail(table, modelId, profileImagePath, profileThumbPath) ==
  [k \in DOMAIN table |->
    IF k = modelId
    THEN [table[k] EXCEPT !.profile_image_path = profileImagePath,
                          !.profile_thumb_path = profileThumbPath]
    ELSE table[k]]

updateStudioThumbnail(table, studioId, logoPath, logoThumbPath) ==
  [k \in DOMAIN table |->
    IF k = studioId
    THEN [table[k] EXCEPT !.logo_path = logoPath, !.logo_thumb_path = logoThumbPath]
    ELSE table[k]]

\* ------------------------------------------------------------ filesystem
PathExists(path) == \E f \in disk : f.path = path

\* fs.move(src, dest): rejects with "dest already exists." (overwrite is off)
MoveTo(files, path, content) == files \cup {[path |-> path, content |-> content]}

\* sharp(...).toFile(path), fs.copy(src, path): an existing file is replaced
WriteTo(files, path, content) ==
  {f \in files : f.path # path} \cup {[path |-> path, content |-> content]}

\* ------------------------------------------------- entity creation forms
\* requests are served one at a time; a response is visible until the next step
NoUploadInFlight == up.pc # "loop"

Respond(op, status) == [NoCall EXCEPT !.op = op, !.status = status]

\* POST /studios
createStudio(name, hasFile) ==
  LET slug == createSlug(name)
      logoPath == IF hasFile THEN <<"studios", slug, "logo">> ELSE NullPath
      logoThumbPath == IF hasFile THEN <<"studios", slug, "logo-thumb">> ELSE NullPath
      ok == ~SlugTaken(studios, slug)
  IN /\ NoUploadInFlight
     /\ studios' = IF ok
                   THEN run(studios, [name |-> name, slug |-> slug, logo_path |-> logoPath,
                                      logo_thumb_path |-> logoThumbPath]).table
                   ELSE studios
     /\ last' = Respond("createStudio", IF ok THEN 302 ELSE 500)
     /\ up' = IdleUp
     /\ UNCHANGED <<models, sets, media, disk, procs, users>>

\* POST /models
createModel(name, studio_id, hasFile) ==
  LET slug == createSlug(name)
      profileImagePath == IF hasFile THEN <<"models", slug, "profile">> ELSE NullPath
      profileThumbPath == IF hasFile THEN <<"models", slug, "profile-thumb">> ELSE NullPath
      ok == ~SlugTaken(models, slug)
  IN /\ NoUploadInFlight
     /\ models' = IF ok
                  THEN run(models, [name |-> name, slug |-> slug, studio_id |-> studio_id,
                                    profile_image_path |-> profileImagePath,
                                    profile_thumb_path |-> profileThumbPath]).table
                  ELSE models
     /\ last' = Respond("createModel", IF ok THEN 302 ELSE 500)
     /\ up' = IdleUp
     /\ UNCHANGED <<studios, sets, media, disk, procs, users>>

\* POST /sets; model_id is NOT NULL, and no foreign key is enforced
createSet(name, model_id, hasFile) ==
  LET slug == createSlug(name)
      coverImagePath == IF hasFile THEN <<"sets", slug, "cover">> ELSE NullPath
      coverThumbPath == IF hasFile THEN <<"sets", slug, "cover-thumb">> ELSE NullPath
      ok == ~SlugTaken(sets, slug) /\ model_id # NullId
  IN /\ NoUploadInFlight
     /\ sets' = IF ok
                THEN run(sets, [name |-> name, slug |-> slug, model_id |-> model_id,
                                cover_image_path |-> coverImagePath,
                                cover_thumb_path |-> coverThumbPath,
                                image_count |-> 0, video_count |-> 0,
                                total_size_bytes |-> 0]).table
                ELSE sets
     /\ last' = Respond("createSet", IF ok THEN 302 ELSE 500)
     /\ up' = IdleUp
     /\ UNCHANGED <<studios, models, media, disk, procs, users>>

\* POST /sets/:id: UPDATE sets SET name, slug, ..., model_id, cover paths
editSet(setId, name, model_id, hasFile) ==
  LET found == getSetRow(setId)
      slug == createSlug(name)
      ok == /\ found # {}
            /\ ~\E k \in Ids(sets) : k # setId /\ sets[k].slug = slug
            /\ model_id # NullId
  IN /\ NoUploadInFlight
     /\ sets' = IF ok
                THEN [sets EXCEPT
                        ![setId] = [@ EXCEPT
                           !.name = name, !.slug = slug, !.model_id = model_id,
                           !.cover_image_path =
                              IF hasFile THEN <<"sets", slug, "cover">> ELSE @,
                           !.cover_thumb_path =
                              IF hasFile THEN <<"sets", slug, "cover-thumb">> ELSE @]]
                ELSE sets
     /\ last' = Respond("editSet", IF found = {} THEN 404 ELSE IF ok THEN 302 ELSE 500)
     /\ up' = IdleUp
     /\ UNCHANGED <<studios, models, media, disk, procs, users>>

\* POST /studios/:id: UPDATE studios SET name, slug, ..., logo paths
editStudio(studioId, name, hasFile) ==
  LET found == getStudioById(studioId)
      slug == createSlug(name)
      ok == /\ found # {}
            /\ ~\E k \in Ids(studios) : k # studioId /\ studios[k].slug = slug
  IN /\ NoUploadInFlight
     /\ studios' = IF ok
                   THEN [studios EXCEPT
                           ![studioId] = [@ EXCEPT
                              !.name = name, !.slug = slug,
                              !.logo_path = IF hasFile THEN <<"studios", slug, "logo">> ELSE @,
                              !.logo_thumb_path =
                                 IF hasFile THEN <<"studios", slug, "logo-thumb">> ELSE @]]
                   ELSE studios
     /\ last' = Respond("editStudio", IF found = {} THEN 404 ELSE IF ok THEN 302 ELSE 500)
     /\ up' = IdleUp
     /\ UNCHANGED <<models, sets, media, disk, procs, users>>

\* POST /models/:id: UPDATE models SET name, slug, ..., studio_id, profile paths
editModel(modelId, name, studio_id, hasFile) ==
  LET found == getModelById(modelId)
      slug == createSlug(name)
      ok == /\ found # {}
            /\ ~\E k \in Ids(models) : k # modelId /\ models[k].slug = slug
  IN /\ NoUploadInFlight
     /\ models' = IF ok
                  THEN [models EXCEPT
                          ![modelId] = [@ EXCEPT
                             !.name = name, !.slug = slug, !.studio_id = studio_id,
                             !.profile_image_path =
                                IF hasFile THEN <<"models", slug, "profile">> ELSE @,
                             !.profile_thumb_path =
                                IF hasFile THEN <<"models", slug, "profile-thumb">> ELSE @]]
                  ELSE models
     /\ last' = Respond("editModel", IF found = {} THEN 404 ELSE IF ok THEN 302 ELSE 500)
     /\ up' = IdleUp
     /\ UNCHANGED <<studios, sets, media, disk, procs, users>>

\* the connection is opened without PRAGMA foreign_keys = ON
ForeignKeysOn == FALSE

\* models.studio_id: FOREIGN KEY ... REFERENCES studios(id) ON DELETE SET NULL
onDeleteStudio(table, studioId, enforced) ==
  IF enforced
  THEN [k \in DOMAIN table |->
          IF table[k] # Deleted /\ table[k].studio_id = studioId
          THEN [table[k] EXCEPT !.studio_id = NullId]
          ELSE table[k]]
  ELSE table

\* DELETE FROM studios WHERE id = ?, as the schema of the gallery answers it
deleteStudio(id) ==
  /\ NoUploadInFlight
  /\ id \in Ids(studios)
  /\ studios' = [studios EXCEPT ![id] = Deleted]
  /\ models' = onDeleteStudio(models, id, ForeignKeysOn)
  /\ last' = [NoCall EXCEPT !.op = "deleteStudio", !.arg = <<id>>]
  /\ up' = IdleUp
  /\ UNCHANGED <<sets, media, disk, procs, users>>

\* ---------------------------------------------------- POST /sets/:id/upload
UploadFaults == {"none", "thumb"}

\* file.mimetype.startsWith('video/') ? 'video' : 'image'
FileTypeOf(mimetype) == IF mimetype = "video/mp4" THEN "video" ELSE "image"

\* INSERT INTO media (...) VALUES (...); returns result.lastID
createMedia(rows, data) ==
  LET result == run(rows, data)
  IN [table |-> result.table, ret |-> ResultLastID(result)]

\* the sort_order the handler gives the file at loop index i
SortOrderOf(i) == i

\* a digest of the content of a file
ContentHash(c) == c + 16

\* variant: the digest of the content is stored, with no duplicate check
HashOfContent(file) == ContentHash(file.content)

\* the hash the handler stores for a file
HashOf(file) == NullHash

\* lines 642-659: lookup of the set, the two fatal checks, the directories
UploadStart(setId, files) ==
  /\ up.pc \in {"idle", "responded"}
  /\ Len(media) + Len(files) <= MaxMedia
  /\ LET \* multer has stored every file of the request in uploads/temp
         req == [IdleUp EXCEPT !.setId = setId, !.files = files,
                               !.temp = 1..Len(files)]
         found == getSetRow(setId)
     IN up' = IF found = {} THEN Answer(404, req)
              ELSE IF Len(files) = 0 THEN Answer(400, req)
              ELSE [req EXCEPT !.pc = "loop",
                               !.slug = (CHOOSE set \in found : TRUE).slug]
  /\ last' = NoCall
  /\ UNCHANGED <<studios, models, sets, media, disk, procs, users>>

\* variant: no try/catch around the thumbnail work of a file
propagateThumbError(threw) == threw

\* lines 679-701: try { dimensions, thumbnail } catch (thumbError) { console.warn }:
\* whether an error of the thumbnail work leaves the loop body
catchThumbError(threw) == FALSE

\* variant: the loop takes the files from the last to the first
FileAtReversed(files, i) == files[Len(files) - i]

\* const file = req.files[i], i counting from 0
FileAt(files, i) == files[i + 1]

\* lines 661-729: one iteration of the loop over req.files
UploadFile(fault) ==
  /\ up.pc = "loop"
  /\ up.i < Len(up.files)
  /\ LET file == FileAt(up.files, up.i)
         fileName == file.originalname
         finalPath == <<"media", up.slug, fileName>>
         thumbPath == <<"thumbs", up.slug, BaseName(fileName)>>
         fileType == FileTypeOf(file.mimetype)
         thumbOk == fault # "thumb"
         width == IF fileType = "image" /\ thumbOk THEN WidthOf(file.content) ELSE NullNum
         moved == MoveTo(disk, finalPath, file.content)
         created == createMedia(media,
                      [set_id |-> up.setId, filename |-> fileName,
                       original_path |-> finalPath, display_path |-> finalPath,
                       thumb_path |-> thumbPath, file_type |-> fileType,
                       mime_type |-> file.mimetype, filesize |-> SizeOf(file.content),
                       width |-> width, sort_order |-> SortOrderOf(up.i),
                       hash |-> HashOf(file)])
     IN IF PathExists(finalPath) \/ catchThumbError(~thumbOk)
        THEN \* fs.move rejects: the outer catch answers 500
             /\ up' = Answer(500, up)
             /\ UNCHANGED <<media, disk>>
        ELSE /\ disk' = IF thumbOk THEN WriteTo(moved, thumbPath, Derived) ELSE moved
             /\ media' = created.table
             /\ up' = [up EXCEPT !.i = up.i + 1, !.temp = @ \ {up.i + 1},
                         !.results = Append(up.results,
                            [id |-> created.ret, filename |-> fileName,
                             size |-> SizeOf(file.content), type |-> fileType])]
  /\ last' = NoCall
  /\ UNCHANGED <<studios, models, sets, procs, users>>

\* lines 731-738: the statistics and the success response
UploadFinish ==
  /\ up.pc = "loop"
  /\ up.i = Len(up.files)
  /\ sets' = updateSetStats(sets, media, up.setId)
  /\ up' = [Answer(200, up) EXCEPT
              !.success = TRUE, !.uploaded = Len(up.results),
              !.ids = [k \in 1..Len(up.results) |-> up.results[k].id]]
  /\ last' = NoCall
  /\ UNCHANGED <<studios, models, media, disk, procs, users>>

\* ------------------------------------------------ AutoThumbnailService
CascadeFaults ==
  {"none", "getSet", "genSet", "updSet", "getModel", "genModel", "updModel",
   "getStudio", "genStudio", "updStudio"}

\* durations a caller can pass: missing, negative, short, long
Durations == {NullNum, -5, 1, 5, 9, 10, 19, 105, 299, 300, 301, 100000}

Max(a, b) == IF a >= b THEN a ELSE b

Min(a, b) == IF a <= b THEN a ELSE b

\* VideoProcessor.getOptimalThumbnailTime: "HH:MM:SS" as <<hours, minutes, seconds>>;
\* offset = Math.max(1, Math.min(30, duration * 0.1)), here in tenths of a second
getOptimalThumbnailTime(duration) ==
  IF duration = NullNum \/ duration <= 0
  THEN <<0, 0, 1>>
  ELSE LET tenths == Max(10, Min(300, duration))
           offset == tenths \div 10
       IN <<offset \div 3600, (offset % 3600) \div 60, offset % 60>>

\* options without a timeOffset
NoTimeOffset == <<>>

\* VideoProcessor.extractThumbnail: const { timeOffset = '00:00:01', ... } = options
TimeOffsetOf(options) ==
  IF options.timeOffset = NoTimeOffset THEN <<0, 0, 1>> ELSE options.timeOffset

Populated(imagePath, thumbPath) == imagePath # NullPath /\ thumbPath # NullPath

\* variant: the paths of the media file itself are handed back as the cover
generateInPlace(files, mediaInfo, outputDir, slug, baseName, fails) ==
  [threw |-> fails \/ ~\E f \in files : f.path = mediaInfo.display_path,
   offsets |-> {},
   coverImagePath |-> mediaInfo.display_path, coverThumbPath |-> mediaInfo.thumb_path]

\* generateThumbnailFromMedia: the cover and its smaller version are made
\* from the file at mediaInfo.display_path; the result is their two paths
generateThumbnailFromMedia(files, mediaInfo, outputDir, slug, baseName, fails) ==
  LET coverImagePath == <<outputDir, slug, baseName>>
      coverThumbPath == <<outputDir, slug, baseName \o "_thumb">>
      readable == \E f \in files : f.path = mediaInfo.display_path
      \* a video: extractThumbnail(mediaPath, fullCoverPath, {width, height, quality})
      offsets == IF mediaInfo.file_type = "video"
                 THEN {TimeOffsetOf([timeOffset |-> NoTimeOffset, width |-> 800,
                                     height |-> 600, quality |-> 85])}
                 ELSE {}
  IN [threw |-> fails \/ ~readable, offsets |-> offsets,
      coverImagePath |-> coverImagePath, coverThumbPath |-> coverThumbPath]

Threw(c, fault) == [c EXCEPT !.threw = TRUE, !.fault = fault]

\* the frames a generation asked extractThumbnail for
Extracted(c, g) == [c EXCEPT !.offsets = @ \cup g.offsets]

\* variant: the early return for a set that has its cover is missing
updateSetThumbnailAlways(c, set, setId, mediaInfo, fault) ==
  LET g == generateThumbnailFromMedia(disk, mediaInfo, "covers/sets", set.slug,
                                      "cover", fault = "genSet")
  IN IF g.threw THEN Threw(Extracted(c, g), "genSet")
     ELSE IF fault = "updSet" THEN Threw(Extracted(c, g), fault)
     ELSE [Extracted(c, g) EXCEPT !.sets = updateSetThumbnail(c.sets, setId, g.coverImagePath,
                                                g.coverThumbPath),
                    !.written = @ \cup {"set"}]

updateSetThumbnailIfNeeded(c, set, setId, mediaInfo, fault) ==
  IF Populated(set.cover_image_path, set.cover_thumb_path)
  THEN [c EXCEPT !.skipped = @ \cup {"set"}]
  ELSE LET g == generateThumbnailFromMedia(disk, mediaInfo, "covers/sets", set.slug,
                                           "cover", fault = "genSet")
       IN IF g.threw THEN Threw(Extracted(c, g), "genSet")
          ELSE IF fault = "updSet" THEN Threw(Extracted(c, g), fault)
          ELSE [Extracted(c, g) EXCEPT !.sets = updateSetThumbnail(c.sets, setId, g.coverImagePath,
                                                     g.coverThumbPath),
                         !.written = @ \cup {"set"}]

\* variant: the model is looked at only when the set got its cover in this call
updateModelThumbnailAfterSet(c, model, modelId, mediaInfo, fault) ==
  IF Populated(model.profile_image_path, model.profile_thumb_path)
       \/ "set" \in c.skipped
  THEN [c EXCEPT !.skipped = @ \cup {"model"}]
  ELSE [c EXCEPT !.models = updateModelThumbnail(c.models, modelId,
                               <<"covers/models", model.slug, "profile">>,
                               <<"covers/models", model.slug, "profile_thumb">>),
                 !.written = @ \cup {"model"}]

updateModelThumbnailIfNeeded(c, model, modelId, mediaInfo, fault) ==
  IF Populated(model.profile_image_path, model.profile_thumb_path)
  THEN [c EXCEPT !.skipped = @ \cup {"model"}]
  ELSE LET g == generateThumbnailFromMedia(disk, mediaInfo, "covers/models", model.slug,
                                           "profile", fault = "genModel")
       IN IF g.threw THEN Threw(Extracted(c, g), "genModel")
          ELSE IF fault = "updModel" THEN Threw(Extracted(c, g), fault)
          ELSE [Extracted(c, g) EXCEPT !.models = updateModelThumbnail(c.models, modelId, g.coverImagePath,
                                                         g.coverThumbPath),
                         !.written = @ \cup {"model"}]

updateStudioThumbnailIfNeeded(c, studio, studioId, mediaInfo, fault) ==
  IF Populated(studio.logo_path, studio.logo_thumb_path)
  THEN [c EXCEPT !.skipped = @ \cup {"studio"}]
  ELSE LET g == generateThumbnailFromMedia(disk, mediaInfo, "covers/studios", studio.slug,
                                           "logo", fault = "genStudio")
       IN IF g.threw THEN Threw(Extracted(c, g), "genStudio")
          ELSE IF fault = "updStudio" THEN Threw(Extracted(c, g), fault)
          ELSE [Extracted(c, g) EXCEPT !.studios = updateStudioThumbnail(c.studios, studioId,
                                                           g.coverImagePath, g.coverThumbPath),
                         !.written = @ \cup {"studio"}]

\* lines 18-44: the body of the try block
CascadeBody(mediaInfo, fault) ==
  LET c0 == [studios |-> studios, models |-> models, sets |-> sets,
             threw |-> FALSE, fault |-> "none", skipped |-> {}, written |-> {},
             offsets |-> {}]
  IN IF fault = "getSet" THEN Threw(c0, fault)
     ELSE IF getSetById(mediaInfo.set_id) = {} THEN c0
     ELSE
       LET set == sets[mediaInfo.set_id]
           c1 == updateSetThumbnailIfNeeded(c0, set, mediaInfo.set_id, mediaInfo, fault)
       IN IF c1.threw THEN c1
          ELSE IF fault = "getModel" THEN Threw(c1, fault)
          ELSE IF getModelById(set.model_id) = {} THEN c1
          ELSE
            LET model == models[set.model_id]
                c2 == updateModelThumbnailIfNeeded(c1, model, set.model_id, mediaInfo, fault)
            IN IF c2.threw THEN c2
               ELSE IF model.studio_id = NullId THEN c2
               ELSE IF fault = "getStudio" THEN Threw(c2, fault)
               ELSE IF getStudioById(model.studio_id) = {} THEN c2
               ELSE updateStudioThumbnailIfNeeded(c2, studios[model.studio_id],
                                                  model.studio_id, mediaInfo, fault)

\* variant: no catch, the error leaves updateEntityThumbnails
rethrow(c) == c

\* lines 45-47: catch (error) { console.error(...) }
catchAndLog(c) == [c EXCEPT !.threw = FALSE]

\* updateEntityThumbnails(db, videoProcessor, mediaInfo)
updateEntityThumbnails(k, fault) ==
  /\ NoUploadInFlight
  /\ k \in Ids(media)
  /\ \E c \in {catchAndLog(CascadeBody(media[k], fault))} :
        /\ studios' = c.studios
        /\ models' = c.models
        /\ sets' = c.sets
        /\ last' = [NoCall EXCEPT !.op = "cascade",
                                   !.outcome = IF c.threw THEN "threw" ELSE "returned",
                                   !.fault = c.fault, !.skipped = c.skipped,
                                   !.written = c.written, !.media = k,
                                   !.offsets = c.offsets]
  /\ up' = IdleUp
  /\ UNCHANGED <<media, disk, procs, users>>

\* cleanupEntityThumbnails(db, mediaInfo): console.log, nothing else
cleanupEntityThumbnails(k) ==
  /\ NoUploadInFlight
  /\ k \in Ids(media)
  /\ last' = [NoCall EXCEPT !.op = "cleanup", !.media = k]
  /\ up' = IdleUp
  /\ UNCHANGED <<studios, models, sets, media, disk, procs, users>>

\* ------------------------------------- ImageProcessor.createDisplayVariant
maxSize == 2048

\* pixel sizes and EXIF orientations of source images: 1 is upright, 3 is
\* turned by 180 degrees, 6 and 8 by 90 degrees
Dims == {1, 2, 1000, 2047, 2048, 2049, 3000, 4096, 5000}

Orientations == {1, 3, 6, 8}

\* sharp(...).rotate(): the picture is brought upright before it is resized
Oriented(img) ==
  IF img.orientation \in {5, 6, 7, 8}
  THEN [width |-> img.height, height |-> img.width]
  ELSE [width |-> img.width, height |-> img.height]

\* a / b rounded to the nearest integer
RoundDiv(a, b) == (2 * a + b) \div (2 * b)

\* variant: fit 'fill', both edges are made as long as the box
ResizeFill(w, h, box) == [width |-> box, height |-> box]

\* resize(box, box, {fit: 'inside', withoutEnlargement: true})
ResizeInside(w, h, box) ==
  IF w <= box /\ h <= box THEN [width |-> w, height |-> h]
  ELSE IF w >= h THEN [width |-> box, height |-> Max(1, RoundDiv(h * box, w))]
  ELSE [width |-> Max(1, RoundDiv(w * box, h)), height |-> box]

\* the pixel size of the display derivative of a source image
createDisplayVariant(img) ==
  IF img.width <= maxSize /\ img.height <= maxSize
  THEN \* fs.copy(inputPath, outputPath)
       [width |-> img.width, height |-> img.height]
  ELSE LET upright == Oriented(img)
       IN ResizeInside(upright.width, upright.height, maxSize)

\* a call of createDisplayVariant
DisplayVariant(img) ==
  /\ NoUploadInFlight
  /\ \E out \in {createDisplayVariant(img)} :
       last' = [NoCall EXCEPT !.op = "createDisplayVariant",
                              !.arg = <<img.width, img.height, img.orientation>>,
                              !.ret = <<out.width, out.height>>]
  /\ up' = IdleUp
  /\ UNCHANGED <<studios, models, sets, media, disk, procs, users>>

\* ------------------------------------------------ SetStructureInferencer
\* internal paths of archive entries, split on the separator into segments
ArchivePaths ==
  {<<"1.jpg">>, <<"SetA", "1.jpg">>, <<"SetA", "notes.txt">>,
   <<"root", "SetA", "1.jpg">>, <<"root", "SetA", "2.jpg">>,
   <<"root", "SetB", "1.jpg">>, <<"root", "SetA", "sub", "1.jpg">>}

\* the (path, isDirectory) entries an archive can list
ArchiveEntries ==
  {[path |-> p, isDirectory |-> FALSE] : p \in ArchivePaths}
    \cup {[path |-> <<"root", "SetA">>, isDirectory |-> TRUE]}

\* the last segment of a path
Leaf(path) == path[Len(path)]

\* the extension of the file is in the supported image list
IsImageName(leaf) == leaf \in {"1.jpg", "2.jpg"}

\* variant: no file counts as sitting at the archive root
NeverBare(path) == FALSE

\* step 3: fewer than 2 segments, the file has no enclosing folder
IsBare(path) == Len(path) < 2

\* variant: the first segment names the set whatever the depth
SetNameFirst(path) == path[1]

\* step 4: segment[0], unless the path has 3+ segments: then segment[1]
SetNameOf(path) == IF Len(path) >= 3 THEN path[2] ELSE path[1]

\* the inferred sets as a list of [name, files] in order of first appearance,
\* with the set of that name added at its end if it is not there
WithSet(inferred, name) ==
  IF \E k \in 1..Len(inferred) : inferred[k].name = name
  THEN inferred
  ELSE Append(inferred, [name |-> name, files |-> <<>>])

\* steps 1 to 6 for one entry
inferEntry(result, entry) ==
  IF entry.isDirectory THEN result
  ELSE IF IsBare(entry.path)
  THEN [result EXCEPT !.errors = Append(@, [path |-> entry.path,
                                            error |-> "not in a set folder"])]
  ELSE LET name == SetNameOf(entry.path)
           known == WithSet(result.sets, name)
       IN IF IsImageName(Leaf(entry.path))
          THEN [result EXCEPT
                  !.sets = [k \in 1..Len(known) |->
                              IF known[k].name = name
                              THEN [known[k] EXCEPT !.files = Append(@, entry)]
                              ELSE known[k]]]
          ELSE [sets |-> known,
                errors |-> Append(result.errors, [path |-> entry.path,
                                                  error |-> "unsupported file type"])]

RECURSIVE inferFrom(_, _, _)
inferFrom(result, entries, i) ==
  IF i > Len(entries) THEN result
  ELSE inferFrom(inferEntry(result, entries[i]), entries, i + 1)

\* the mapping inferred-set-name -> ordered list of file entries, and the
\* non-fatal errors
inferSets(entries) == inferFrom([sets |-> <<>>, errors |-> <<>>], entries, 1)

\* the call of the inferencer on the entries of an archive
InferSets(entries) ==
  /\ NoUploadInFlight
  /\ last.op = "none"
  /\ \E result \in {inferSets(entries)} :
       last' = [NoCall EXCEPT !.op = "inferSets", !.arg = entries,
                              !.ret = <<result.sets, result.errors>>]
  /\ up' = IdleUp
  /\ UNCHANGED <<studios, models, sets, media, disk, procs, users>>

\* ------------------------------------------------ requests side by side
\* the two requests, or the two service calls, that run at the same time
Requests == {1, 2}

\* the handler of POST /sets/:id/upload between two of its awaits: pc is the
\* await it is at, size the result of fs.stat, rows the media rows it inserted
NewUpload(setId, files) ==
  [op |-> "upload", pc |-> "move", setId |-> setId, slug |-> "", files |-> files,
   i |-> 0, size |-> 0, rows |-> <<>>, status |-> 0]

\* the files of the requests accepted so far
RECURSIVE FilesOf(_)
FilesOf(ps) == IF ps = <<>> THEN 0 ELSE Len(Head(ps).files) + FilesOf(Tail(ps))

At(p, pc) == p \in DOMAIN procs /\ procs[p].op = "upload" /\ procs[p].pc = pc

\* lines 642-659: a request arrives while others are running
AcceptUpload(setId, files) ==
  /\ Len(procs) + 1 \in Requests
  /\ FilesOf(procs) + Len(files) <= MaxMedia
  /\ LET req == NewUpload(setId, files)
         found == getSetRow(setId)
     IN procs' = Append(procs,
          IF found = {} THEN [req EXCEPT !.pc = "done", !.status = 404]
          ELSE IF Len(files) = 0 THEN [req EXCEPT !.pc = "done", !.status = 400]
          ELSE [req EXCEPT !.slug = (CHOOSE set \in found : TRUE).slug])
  /\ UNCHANGED <<studios, models, sets, media, disk, up, last, users>>

FinalPath(req) == <<"media", req.slug, FileAt(req.files, req.i).originalname>>

\* line 672, fs.move(file.path, finalPath), its first half: the destination
\* is looked up, and the move is rejected if it is there
MoveFile(p) ==
  /\ At(p, "move")
  /\ procs' = [procs EXCEPT ![p] =
                 IF PathExists(FinalPath(procs[p]))
                 THEN [@ EXCEPT !.pc = "done", !.status = 500]
                 ELSE [@ EXCEPT !.pc = "rename"]]
  /\ UNCHANGED <<studios, models, sets, media, disk, up, last, users>>

\* line 672, its second half: rename(src, dest) puts the file at finalPath
RenameFile(p) ==
  /\ At(p, "rename")
  /\ disk' = WriteTo(disk, FinalPath(procs[p]),
                     FileAt(procs[p].files, procs[p].i).content)
  /\ procs' = [procs EXCEPT ![p].pc = "thumb"]
  /\ UNCHANGED <<studios, models, sets, media, up, last, users>>

\* lines 679-701: the thumbnail, or the placeholder of a video
MakeThumb(p) ==
  /\ At(p, "thumb")
  /\ disk' = WriteTo(disk, <<"thumbs", procs[p].slug,
                             BaseName(FileAt(procs[p].files, procs[p].i).originalname)>>,
                     Derived)
  /\ procs' = [procs EXCEPT ![p].pc = "stat"]
  /\ UNCHANGED <<studios, models, sets, media, up, last, users>>

\* line 704: const stats = await fs.stat(finalPath)
StatFile(p) ==
  /\ At(p, "stat")
  /\ procs' = [procs EXCEPT ![p] = [@ EXCEPT !.pc = "insert",
                 !.size = SizeOf((CHOOSE f \in disk : f.path = FinalPath(procs[p])).content)]]
  /\ UNCHANGED <<studios, models, sets, media, disk, up, last, users>>

\* lines 707-728: createMedia, results.push, and the next turn of the loop
InsertMedia(p) ==
  /\ At(p, "insert")
  /\ LET req == procs[p]
         file == FileAt(req.files, req.i)
         fileType == FileTypeOf(file.mimetype)
         created == createMedia(media,
                      [set_id |-> req.setId, filename |-> file.originalname,
                       original_path |-> FinalPath(req), display_path |-> FinalPath(req),
                       thumb_path |-> <<"thumbs", req.slug, BaseName(file.originalname)>>,
                       file_type |-> fileType, mime_type |-> file.mimetype,
                       filesize |-> req.size,
                       width |-> IF fileType = "image" THEN WidthOf(file.content)
                                 ELSE NullNum,
                       sort_order |-> SortOrderOf(req.i), hash |-> HashOf(file)])
     IN /\ media' = created.table
        /\ procs' = [procs EXCEPT ![p] = [@ EXCEPT
                       !.i = req.i + 1, !.rows = Append(req.rows, Len(created.table)),
                       !.pc = IF req.i + 1 < Len(req.files) THEN "move" ELSE "stats"]]
  /\ UNCHANGED <<studios, models, sets, disk, up, last, users>>

\* variant: the statistics count the rows the request itself inserted
OwnRows(rows, own) == [k \in 1..Len(own) |-> rows[own[k]]]

\* the rows the subqueries of updateSetStats read: the table as it is now
AllRows(rows, own) == rows

\* lines 731-738: updateSetStats(setId) and the success response
FinishUpload(p) ==
  /\ At(p, "stats")
  /\ sets' = updateSetStats(sets, AllRows(media, procs[p].rows), procs[p].setId)
  /\ procs' = [procs EXCEPT ![p] = [@ EXCEPT !.pc = "done", !.status = 200]]
  /\ UNCHANGED <<studios, models, media, disk, up, last, users>>

\* -------------------------------------- two cascade calls side by side
\* updateEntityThumbnails between two of its awaits: the ids and the slug of
\* the row it has loaded, and the levels it has written
NewCascade(k) ==
  [op |-> "cascade", pc |-> "getSet", media |-> k, setId |-> NullId,
   modelId |-> NullId, studioId |-> NullId, slug |-> "", written |-> {}]

AtCascade(p, pc) == p \in DOMAIN procs /\ procs[p].op = "cascade" /\ procs[p].pc = pc

\* the service is called for a media row while another call may be running
StartCascade(k) ==
  /\ NoUploadInFlight
  /\ Len(procs) + 1 \in Requests
  /\ k \in Ids(media)
  /\ procs' = Append(procs, NewCascade(k))
  /\ UNCHANGED <<studios, models, sets, media, disk, up, last, users>>

\* lines 21-28 and 54-57: getSetById, and the check on the row it returned
GetSet(p) ==
  /\ AtCascade(p, "getSet")
  /\ LET found == getSetById(media[procs[p].media].set_id)
         set == CHOOSE row \in found : TRUE
     IN procs' = [procs EXCEPT ![p] =
          IF found = {} THEN [@ EXCEPT !.pc = "done"]
          ELSE [@ EXCEPT !.setId = media[procs[p].media].set_id,
                         !.modelId = set.model_id, !.slug = set.slug,
                         !.pc = IF Populated(set.cover_image_path, set.cover_thumb_path)
                                THEN "getModel" ELSE "writeSet"]]
  /\ UNCHANGED <<studios, models, sets, media, disk, up, last, users>>

\* lines 61-69: generateThumbnailFromMedia, then db.updateSetThumbnail
WriteSet(p) ==
  /\ AtCascade(p, "writeSet")
  /\ LET g == generateThumbnailFromMedia(disk, media[procs[p].media], "covers/sets",
                                         procs[p].slug, "cover", FALSE)
     IN IF g.threw
        THEN /\ procs' = [procs EXCEPT ![p].pc = "done"]
             /\ UNCHANGED sets
        ELSE /\ sets' = updateSetThumbnail(sets, procs[p].setId, g.coverImagePath,
                                           g.coverThumbPath)
             /\ procs' = [procs EXCEPT ![p] = [@ EXCEPT !.pc = "getModel",
                                                          !.written = @ \cup {"set"}]]
  /\ UNCHANGED <<studios, models, media, disk, up, last, users>>

\* lines 30-33 and 76-79: getModelById, and the check on the row it returned
GetModel(p) ==
  /\ AtCascade(p, "getModel")
  /\ LET found == getModelById(procs[p].modelId)
         model == CHOOSE row \in found : TRUE
     IN procs' = [procs EXCEPT ![p] =
          IF found = {} THEN [@ EXCEPT !.pc = "done"]
          ELSE [@ EXCEPT !.studioId = model.studio_id, !.slug = model.slug,
                         !.pc = IF ~Populated(model.profile_image_path,
                                              model.profile_thumb_path)
                                THEN "writeModel"
                                ELSE IF model.studio_id = NullId THEN "done"
                                ELSE "getStudio"]]
  /\ UNCHANGED <<studios, models, sets, media, disk, up, last, users>>

\* lines 83-91: generateThumbnailFromMedia, then db.updateModelThumbnail
WriteModel(p) ==
  /\ AtCascade(p, "writeModel")
  /\ LET g == generateThumbnailFromMedia(disk, media[procs[p].media], "covers/models",
                                         procs[p].slug, "profile", FALSE)
     IN IF g.threw
        THEN /\ procs' = [procs EXCEPT ![p].pc = "done"]
             /\ UNCHANGED models
        ELSE /\ models' = updateModelThumbnail(models, procs[p].modelId, g.coverImagePath,
                                               g.coverThumbPath)
             /\ procs' = [procs EXCEPT ![p] = [@ EXCEPT
                            !.pc = IF procs[p].studioId = NullId THEN "done"
                                   ELSE "getStudio",
                            !.written = @ \cup {"model"}]]
  /\ UNCHANGED <<studios, sets, media, disk, up, last, users>>

\* lines 36-41 and 98-101: getStudioById, and the check on the row it returned
GetStudio(p) ==
  /\ AtCascade(p, "getStudio")
  /\ LET found == getStudioById(procs[p].studioId)
         studio == CHOOSE row \in found : TRUE
     IN procs' = [procs EXCEPT ![p] =
          IF found = {} \/ Populated(studio.logo_path, studio.logo_thumb_path)
          THEN [@ EXCEPT !.pc = "done"]
          ELSE [@ EXCEPT !.slug = studio.slug, !.pc = "writeStudio"]]
  /\ UNCHANGED <<studios, models, sets, media, disk, up, last, users>>

\* lines 105-113: generateThumbnailFromMedia, then db.updateStudioThumbnail
WriteStudio(p) ==
  /\ AtCascade(p, "writeStudio")
  /\ LET g == generateThumbnailFromMedia(disk, media[procs[p].media], "covers/studios",
                                         procs[p].slug, "logo", FALSE)
     IN IF g.threw
        THEN /\ procs' = [procs EXCEPT ![p].pc = "done"]
             /\ UNCHANGED studios
        ELSE /\ studios' = updateStudioThumbnail(studios, procs[p].studioId,
                                                 g.coverImagePath, g.coverThumbPath)
             /\ procs' = [procs EXCEPT ![p] = [@ EXCEPT !.pc = "done",
                                                          !.written = @ \cup {"studio"}]]
  /\ UNCHANGED <<models, sets, media, disk, up, last, users>>

\* ------------------------------------------------------------ POST /setup
\* the form bodies: user names and passwords, too short or long enough
SetupBodies ==
  {[username |-> u, password |-> pw, confirm_password |-> c] :
     u \in {"ab", "admin", "root"}, pw \in {"short", "secret1"},
     c \in {"short", "secret1"}}

\* the handler of POST /setup between two of its awaits
NewSetup(body) ==
  [op |-> "setup", pc |-> "count", body |-> body, hash |-> <<>>, status |-> "none"]

AtSetup(p, pc) == p \in DOMAIN procs /\ procs[p].op = "setup" /\ procs[p].pc = pc

\* a POST /setup arrives while another may be running
AcceptSetup(body) ==
  /\ Len(procs) + 1 \in Requests
  /\ procs' = Append(procs, NewSetup(body))
  /\ UNCHANGED <<studios, models, sets, media, disk, up, last, users>>

\* lines 24-45: SELECT COUNT(*) FROM users, the redirect, the three validations
CountUsers(p) ==
  /\ AtSetup(p, "count")
  /\ LET body == procs[p].body
     IN procs' = [procs EXCEPT ![p] =
          IF Len(users) > 0 THEN [@ EXCEPT !.pc = "done", !.status = "redirect"]
          ELSE IF Len(body.username) < 3 \/ Len(body.password) < 6
                    \/ body.password # body.confirm_password
          THEN [@ EXCEPT !.pc = "done", !.status = "invalid"]
          ELSE [@ EXCEPT !.pc = "hash"]]
  /\ UNCHANGED <<studios, models, sets, media, disk, up, last, users>>

\* lines 47-48: await bcrypt.hash(password, saltRounds)
HashPassword(p) ==
  /\ AtSetup(p, "hash")
  /\ procs' = [procs EXCEPT ![p] = [@ EXCEPT !.pc = "insert",
                                               !.hash = <<"bcrypt", procs[p].body.password>>]]
  /\ UNCHANGED <<studios, models, sets, media, disk, up, last, users>>

\* lines 50-61: INSERT INTO users; username is UNIQUE, the catch renders the error
InsertUser(p) ==
  /\ AtSetup(p, "insert")
  /\ LET taken == \E k \in DOMAIN users : users[k].username = procs[p].body.username
     IN /\ users' = IF taken THEN users
                     ELSE run(users, [username |-> procs[p].body.username,
                                      password_hash |-> procs[p].hash,
                                      role |-> "admin"]).table
        /\ procs' = [procs EXCEPT ![p] = [@ EXCEPT !.pc = "done",
                        !.status = IF taken THEN "error" ELSE "created"]]
  /\ UNCHANGED <<studios, models, sets, media, disk, up, last>>

\* ----------------------------------------------------------- the system
\* every list of at most MaxFiles files
FileLists == SeqsUpTo(File, MaxFiles)

\* ids a request can name: 0 for none, and one for each row there can be
IdInputs(names) == 0..Cardinality(names)

\* the admin forms and the bulk upload, for sets of the given names, with or
\* without images attached to the forms, and with the given thumbnail faults
Ingestion(setNames, attach, faults) ==
  \/ \E name \in ModelNames, studio_id \in IdInputs(StudioNames), hasFile \in attach :
       createModel(name, studio_id, hasFile)
  \/ \E name \in setNames, model_id \in IdInputs(ModelNames), hasFile \in attach :
       createSet(name, model_id, hasFile)
  \/ \E setId \in IdInputs(setNames) \ {0}, files \in FileLists : UploadStart(setId, files)
  \/ \E fault \in faults : UploadFile(fault)
  \/ UploadFinish

Cascade ==
  \E k \in Ids(media), fault \in CascadeFaults : updateEntityThumbnails(k, fault)

\* the gallery with one set name: forms, upload and thumbnail cascade
Next ==
  \/ \E name \in StudioNames, hasFile \in BOOLEAN : createStudio(name, hasFile)
  \/ Ingestion(SetNames, BOOLEAN, UploadFaults)
  \/ \E setId \in IdInputs(SetNames) \ {0}, name \in SetNames,
        model_id \in IdInputs(ModelNames), hasFile \in BOOLEAN :
       editSet(setId, name, model_id, hasFile)
  \/ Cascade

Spec == Init /\ [][Next]_vars

\* two sets side by side: the forms without images and the upload without faults
NextSets == Ingestion(TwoSetNames, {FALSE}, {"none"})

SpecSets == Init /\ [][NextSets]_vars

\* one set and the uploads into it, thumbnails failing or not
NextUpload == Ingestion(SetNames, {FALSE}, UploadFaults)

SpecUpload == Init /\ [][NextUpload]_vars

\* studios and their models, studios being created and deleted
NextDelete ==
  \/ /\ Len(studios) < MaxStudios
     /\ \E name \in StudioNames, hasFile \in BOOLEAN : createStudio(name, hasFile)
  \/ \E name \in ModelNames, studio_id \in 0..MaxStudios, hasFile \in BOOLEAN :
       createModel(name, studio_id, hasFile)
  \/ \E id \in 1..MaxStudios : deleteStudio(id)

SpecDelete == Init /\ [][NextDelete]_vars

\* creation and edit of the three entities, upload, cascade and cleanup
NextThumbs ==
  \/ \E name \in StudioNames, hasFile \in BOOLEAN : createStudio(name, hasFile)
  \/ Ingestion(SetNames, BOOLEAN, {"none"})
  \/ \E id \in IdInputs(StudioNames) \ {0}, name \in StudioNames, hasFile \in BOOLEAN :
       editStudio(id, name, hasFile)
  \/ \E id \in IdInputs(ModelNames) \ {0}, name \in ModelNames,
        studio_id \in IdInputs(StudioNames), hasFile \in BOOLEAN :
       editModel(id, name, studio_id, hasFile)
  \/ \E setId \in IdInputs(SetNames) \ {0}, name \in SetNames,
        model_id \in IdInputs(ModelNames), hasFile \in BOOLEAN :
       editSet(setId, name, model_id, hasFile)
  \/ Cascade
  \/ \E k \in Ids(media) : cleanupEntityThumbnails(k)

SpecThumbs == Init /\ [][NextThumbs]_vars

\* two uploads into one set, each step of one between the steps of the other
NextUploads ==
  \/ \E name \in ModelNames : createModel(name, NullId, FALSE)
  \/ \E name \in SetNames, model_id \in IdInputs(ModelNames) : createSet(name, model_id, FALSE)
  \/ \E setId \in IdInputs(SetNames) \ {0}, files \in FileLists : AcceptUpload(setId, files)
  \/ \E p \in Requests :
       \/ MoveFile(p)
       \/ RenameFile(p)
       \/ MakeThumb(p)
       \/ StatFile(p)
       \/ InsertMedia(p)
       \/ FinishUpload(p)

SpecUploads == Init /\ [][NextUploads]_vars

\* the forms without images and the upload, then two cascade calls with their
\* steps interleaved
NextCascades ==
  \/ /\ procs = <<>>
     /\ \/ \E name \in StudioNames : createStudio(name, FALSE)
        \/ Ingestion(SetNames, {FALSE}, {"none"})
  \/ \E k \in 1..MaxMedia : StartCascade(k)
  \/ \E p \in Requests :
       \/ GetSet(p)
       \/ WriteSet(p)
       \/ GetModel(p)
       \/ WriteModel(p)
       \/ GetStudio(p)
       \/ WriteStudio(p)

SpecCascades == Init /\ [][NextCascades]_vars

\* two POST /setup, each step of one between the steps of the other
NextSetup ==
  \/ \E body \in SetupBodies : AcceptSetup(body)
  \/ \E p \in Requests : CountUsers(p) \/ HashPassword(p) \/ InsertUser(p)

SpecSetup == Init /\ [][NextSetup]_vars

\* the inferencer on every archive of at most MaxEntries entries
NextInfer == \E entries \in SeqsUpTo(ArchiveEntries, MaxEntries) : InferSets(entries)

SpecInfer == Init /\ [][NextInfer]_vars

\* display derivatives of source images of every size and orientation
NextImages ==
  \E w \in Dims, h \in Dims, o \in Orientations :
    DisplayVariant([width |-> w, height |-> h, orientation |-> o])

SpecImages == Init /\ [][NextImages]_vars

\* ------------------------------------------------------------ properties
SetOfMedia(k) == media[k].set_id

\* the counters of a set equal what its media rows add up to
StatsMatch(setId) ==
  /\ sets[setId].image_count = CountType(media, setId, "image")
  /\ sets[setId].video_count = CountType(media, setId, "video")
  /\ sets[setId].total_size_bytes = SumSize(media, MediaOfSet(media, setId))

\* the content of the file a media row stores
ContentOfRow(rows, files, k) ==
  (CHOOSE f \in files : f.path = rows[k].original_path).content

\* the upload has passed its two fatal checks and has answered
AnsweredAfterChecks == up.pc = "responded" /\ up.status \notin {404, 400}

\* C1: in every state the sort_order values of the media rows of a set are
\* exactly 0 .. N-1, N being the number of those rows, whatever number of
\* uploads went into the set.
C1_SortOrderDense ==
  \A setId \in Ids(sets) :
    LET rows == MediaOfSet(media, setId)
    IN /\ {media[k].sort_order : k \in rows} = 0..(Cardinality(rows) - 1)
       /\ \A j, k \in rows : j # k => media[j].sort_order # media[k].sort_order

\* C2: a step of the upload loop never adds a media row, nor a file on disk,
\* for a file whose content is that of a media row the set already has.
C2_DuplicateSkipped ==
  [][(up.pc = "loop" /\ up.i < Len(up.files)
        /\ \E k \in MediaOfSet(media, up.setId) :
             ContentOfRow(media, disk, k) = up.files[up.i + 1].content)
      => (media' = media /\ disk' = disk)]_vars

\* C3: no two media rows of one set carry the same hash, unless it is null.
C3_HashUniquePerSet ==
  \A j, k \in Ids(media) :
    (j # k /\ SetOfMedia(j) = SetOfMedia(k) /\ media[j].hash # NullHash)
      => media[j].hash # media[k].hash

\* two rows of one set store the same content: the case in which two equal
\* hashes would meet
C3_SameContentTwice ==
  \E j, k \in Ids(media) :
    /\ j # k
    /\ SetOfMedia(j) = SetOfMedia(k)
    /\ ContentOfRow(media, disk, j) = ContentOfRow(media, disk, k)
    /\ media[j].hash = NullHash

\* C4: once an upload that stored at least one file has answered, the set
\* has both its cover paths.
C4_CoverAfterUpload ==
  (up.pc = "responded" /\ up.success /\ up.uploaded >= 1)
    => Populated(sets[up.setId].cover_image_path, sets[up.setId].cover_thumb_path)

\* C5: a call of updateEntityThumbnails leaves the two paths of every set,
\* model and studio that had both of them as they were.
C5_CascadeKeepsPopulated ==
  [][(last'.op = "cascade")
      => /\ \A k \in Ids(sets) :
              Populated(sets[k].cover_image_path, sets[k].cover_thumb_path)
                => /\ sets'[k].cover_image_path = sets[k].cover_image_path
                   /\ sets'[k].cover_thumb_path = sets[k].cover_thumb_path
         /\ \A k \in Ids(models) :
              Populated(models[k].profile_image_path, models[k].profile_thumb_path)
                => /\ models'[k].profile_image_path = models[k].profile_image_path
                   /\ models'[k].profile_thumb_path = models[k].profile_thumb_path
         /\ \A k \in Ids(studios) :
              Populated(studios[k].logo_path, studios[k].logo_thumb_path)
                => /\ studios'[k].logo_path = studios[k].logo_path
                   /\ studios'[k].logo_thumb_path = studios[k].logo_thumb_path]_vars

\* a call has just met a level that had its thumbnail, and passed it by
C5_LevelSkipped == last.op = "cascade" /\ last.skipped # {}

\* C6: after a call in which generation failed for the set, the model of the
\* set has its profile paths; after one in which it failed for the set or the
\* model, the studio of the model, if there is one, has its logo paths.
C6_FailureIsolated ==
  (last.op = "cascade" /\ last.fault \in {"genSet", "genModel"})
    => LET set == sets[SetOfMedia(last.media)]
           model == models[set.model_id]
       IN /\ last.fault = "genSet"
               => Populated(model.profile_image_path, model.profile_thumb_path)
          /\ model.studio_id \in Ids(studios)
               => Populated(studios[model.studio_id].logo_path,
                            studios[model.studio_id].logo_thumb_path)

\* C7: every call of updateEntityThumbnails returns normally.
C7_NeverThrows == last.op = "cascade" => last.outcome = "returned"

\* a lookup, a generation or an update failed inside the call just made
C7_FaultInside == last.op = "cascade" /\ last.fault # "none"

\* C8: when a file of an upload raised an error, every other file of that
\* upload has been processed (the one that failed was the only one not
\* stored) and the counters of the set match its media rows.
C8_FailureContained ==
  (up.pc = "responded" /\ up.status = 500)
    => /\ up.i = up.total - 1
       /\ StatsMatch(up.setId)

\* C9: an upload that has passed its fatal checks answers with the success
\* summary.
C9_AlwaysSummary == AnsweredAfterChecks => (up.status = 200 /\ up.success)

\* C10: when an upload has been through all its files and has answered, the
\* three counters of the set equal the count of its image rows, the count of
\* its video rows and the sum of their sizes.
C10_StatsAfterUpload == (up.pc = "responded" /\ up.success) => StatsMatch(up.setId)

\* an upload has answered for a set that holds an image and a video
C10_UploadCounted ==
  /\ up.pc = "responded"
  /\ up.success
  /\ sets[up.setId].image_count >= 1
  /\ sets[up.setId].video_count >= 1

\* C11: once the upload handler has answered, whether with the success
\* summary, with "set not found", with "no files" or with the error of an
\* exception part-way, none of the files multer stored for that request is
\* left in uploads/temp.
C11_TempCleaned == up.pc = "responded" => up.temp = {}

\* C12: an upload whose target set does not exist is answered with the
\* explicit failure 404, and that step adds no media row, writes no media
\* or thumbnail file and changes no counter of any set.
C12_MissingTargetFails ==
  [][(up.pc # "loop" /\ up'.pc # "idle" /\ up'.setId \notin Ids(sets))
      => /\ up'.pc = "responded"
         /\ up'.status = 404
         /\ media' = media
         /\ disk' = disk
         /\ sets' = sets]_vars

\* an upload that came with files for an id no set has, other sets existing
C12_MissingTarget ==
  up.pc = "responded" /\ up.status = 404 /\ up.total > 0 /\ sets # <<>>

\* C13: a loop step for a file that has the name of a media row of the set
\* but another content stores it: the loop goes on, a row is added whose
\* path differs from that of every row before, and every file on disk stays.
C13_SameNameStored ==
  [][(up.pc = "loop" /\ up.i < Len(up.files)
        /\ \E k \in MediaOfSet(media, up.setId) :
             /\ media[k].filename = up.files[up.i + 1].originalname
             /\ ContentOfRow(media, disk, k) # up.files[up.i + 1].content)
      => /\ up'.pc = "loop"
         /\ Len(media') = Len(media) + 1
         /\ \A k \in Ids(media) :
              media'[Len(media')].original_path # media[k].original_path
         /\ disk \subseteq disk']_vars

\* C20: a loop step in which the thumbnail work of the file fails, the move
\* of the file having succeeded, still inserts the media row of the file and
\* goes on to the next file.
C20_ThumbFailureKeepsRow ==
  [][(UploadFile("thumb")
        /\ ~PathExists(<<"media", up.slug, up.files[up.i + 1].originalname>>))
      => /\ Len(media') = Len(media) + 1
         /\ media'[Len(media')].filename = up.files[up.i + 1].originalname
         /\ up'.pc = "loop"
         /\ up'.i = up.i + 1]_vars

\* the image just stored has no dimensions: its thumbnail work failed
C20_ThumbFailed ==
  /\ up.pc = "loop"
  /\ up.i >= 1
  /\ media # <<>>
  /\ media[Len(media)].filename = up.files[up.i].originalname
  /\ media[Len(media)].file_type = "image"
  /\ media[Len(media)].width = NullNum

\* C14: a set creation under the name of a set the same model already has
\* succeeds and adds a second set row.
C14_SameNameSecondSet ==
  [][\A name \in SetNames, model_id \in IdInputs(ModelNames), hasFile \in BOOLEAN :
       (createSet(name, model_id, hasFile)
          /\ \E k \in Ids(sets) : sets[k].name = name /\ sets[k].model_id = model_id)
         => (Len(sets') = Len(sets) + 1 /\ last'.status = 302)]_vars

\* C15: in every state the model_id of every set row is non-null and is the
\* id of a model row.
C15_SetHasModel ==
  \A k \in Ids(sets) : sets[k].model_id # NullId /\ sets[k].model_id \in Ids(models)

\* C16: the deletion of a studio deletes every model that studio owned.
C16_StudioDeleteCascades ==
  [][(last'.op = "deleteStudio")
      => \A k \in Ids(models) :
           models[k].studio_id = last'.arg[1] => k \notin Ids(models')]_vars

\* C18: getOptimalThumbnailTime answers an offset of 1 to 30 seconds for
\* every duration, of 1 second for a missing or non-positive one; and every
\* frame a call of updateEntityThumbnails extracts from a video is taken at
\* the offset getOptimalThumbnailTime answers for the duration of that clip.
C18_ThumbnailOffset ==
  /\ \A d \in Durations :
       LET t == getOptimalThumbnailTime(d)
       IN /\ t[1] = 0 /\ t[2] = 0 /\ t[3] \in 1..30
          /\ d <= 0 => t = <<0, 0, 1>>
  /\ (last.op = "cascade" /\ last.offsets # {})
       => last.offsets =
            {getOptimalThumbnailTime(DurationOf(ContentOfRow(media, disk, last.media)))}

\* C19: after a call of updateEntityThumbnails for a video in which the
\* generation of the thumbnail failed at a level, that level has both its
\* paths all the same: a placeholder took the place of the frame.
C19_PlaceholderOnFailure ==
  (last.op = "cascade" /\ media[last.media].file_type = "video"
     /\ last.fault \in {"genSet", "genModel", "genStudio"})
    => LET set == sets[SetOfMedia(last.media)]
           model == models[set.model_id]
       IN /\ last.fault = "genSet"
               => Populated(set.cover_image_path, set.cover_thumb_path)
          /\ last.fault = "genModel"
               => Populated(model.profile_image_path, model.profile_thumb_path)
          /\ last.fault = "genStudio"
               => Populated(studios[model.studio_id].logo_path,
                            studios[model.studio_id].logo_thumb_path)

\* C17, as stated: the display derivative of a source of at most 2048 by
\* 2048 pixels has the pixel size of the source; that of a larger source has
\* a long edge of at most 2048 and is in neither dimension larger than the
\* source.
C17_NoUpscale ==
  (last.op = "createDisplayVariant")
    => LET w == last.arg[1]
           h == last.arg[2]
           ow == last.ret[1]
           oh == last.ret[2]
       IN IF w <= 2048 /\ h <= 2048
          THEN ow = w /\ oh = h
          ELSE Max(ow, oh) <= 2048 /\ ow <= w /\ oh <= h

\* C17, amended: the same, the derivative of a larger source being in neither
\* dimension larger than the source brought upright by its EXIF orientation.
C17_NoUpscaleUpright ==
  (last.op = "createDisplayVariant")
    => LET w == last.arg[1]
           h == last.arg[2]
           upright == Oriented([width |-> w, height |-> h, orientation |-> last.arg[3]])
           ow == last.ret[1]
           oh == last.ret[2]
       IN IF w <= 2048 /\ h <= 2048
          THEN ow = w /\ oh = h
          ELSE Max(ow, oh) <= 2048 /\ ow <= upright.width /\ oh <= upright.height

\* a source wider than 2048 pixels, not square and stored turned by 90
\* degrees, has been given its display derivative
C17_LargeTurnedSource ==
  /\ last.op = "createDisplayVariant"
  /\ last.arg[1] > 2048
  /\ last.arg[1] # last.arg[2]
  /\ last.arg[3] = 6

\* the file entry is in the file list of an inferred set of that name
ListedIn(inferred, name, entry) ==
  \E k \in 1..Len(inferred) :
    inferred[k].name = name /\ \E j \in 1..Len(inferred[k].files) : inferred[k].files[j] = entry

\* the file entry is in the file list of some inferred set
Listed(inferred, entry) ==
  \E k \in 1..Len(inferred) : ListedIn(inferred, inferred[k].name, entry)

FileEntry(p) == [path |-> p, isDirectory |-> FALSE]

\* C21: every image file entry of 2 segments is listed in the set named by
\* its segment[0] and every one of 3 or more segments in the set named by its
\* segment[1], and in no set of another name, whatever the other entries are;
\* root/SetA/1.jpg, root/SetA/2.jpg, root/SetB/1.jpg give exactly SetA with
\* its 2 files and SetB with its 1 file, and SetA/1.jpg gives exactly SetA.
C21_SetNamePerFile ==
  (last.op = "inferSets")
    => LET entries == last.arg
           inferred == last.ret[1]
       IN /\ \A i \in 1..Len(entries) :
               LET e == entries[i]
                   expected == IF Len(e.path) = 2 THEN e.path[1] ELSE e.path[2]
               IN (~e.isDirectory /\ Len(e.path) >= 2 /\ IsImageName(Leaf(e.path)))
                    => /\ ListedIn(inferred, expected, e)
                       /\ \A k \in 1..Len(inferred) :
                            ListedIn(inferred, inferred[k].name, e)
                              => inferred[k].name = expected
          /\ entries = <<FileEntry(<<"root", "SetA", "1.jpg">>),
                          FileEntry(<<"root", "SetA", "2.jpg">>),
                          FileEntry(<<"root", "SetB", "1.jpg">>)>>
               => inferred =
                    <<[name |-> "SetA",
                       files |-> <<FileEntry(<<"root", "SetA", "1.jpg">>),
                                   FileEntry(<<"root", "SetA", "2.jpg">>)>>],
                      [name |-> "SetB",
                       files |-> <<FileEntry(<<"root", "SetB", "1.jpg">>)>>]>>
          /\ entries = <<FileEntry(<<"SetA", "1.jpg">>)>>
               => inferred = <<[name |-> "SetA",
                                files |-> <<FileEntry(<<"SetA", "1.jpg">>)>>]>>

\* an archive that mixes depths has been through the inferencer
C21_MixedDepths ==
  /\ last.op = "inferSets"
  /\ last.arg = <<FileEntry(<<"SetA", "1.jpg">>), FileEntry(<<"root", "SetB", "1.jpg">>),
                  FileEntry(<<"root", "SetA", "2.jpg">>)>>

\* C22: a file entry of fewer than 2 segments is in the file list of no set,
\* no inferred set comes from it (every set has the name inferred from a file
\* in a folder), and the errors hold "not in a set folder" for it exactly
\* once for each time the archive lists it.
C22_BareFileSkipped ==
  (last.op = "inferSets")
    => LET entries == last.arg
           inferred == last.ret[1]
           errors == last.ret[2]
           InFolder(e) == ~e.isDirectory /\ Len(e.path) >= 2
       IN /\ \A i \in 1..Len(entries) :
               LET e == entries[i]
               IN (~e.isDirectory /\ Len(e.path) < 2)
                    => /\ ~Listed(inferred, e)
                       /\ Cardinality({j \in 1..Len(errors) :
                                         /\ errors[j].path = e.path
                                         /\ errors[j].error = "not in a set folder"})
                            = Cardinality({j \in 1..Len(entries) : entries[j] = e})
          /\ \A k \in 1..Len(inferred) :
               \E i \in 1..Len(entries) :
                 /\ InFolder(entries[i])
                 /\ inferred[k].name =
                      IF Len(entries[i].path) = 2 THEN entries[i].path[1]
                      ELSE entries[i].path[2]

\* an archive with a bare file next to a file in a folder has been through
C22_BareFileSeen ==
  /\ last.op = "inferSets"
  /\ last.arg = <<FileEntry(<<"1.jpg">>), FileEntry(<<"SetA", "1.jpg">>)>>

\* C23: the files of one upload are taken one at a time in the order of
\* req.files: the rows a request has inserted are, in the order of their
\* insertion, the first files of its list, the row of file i is in the table
\* before any step on file i+1 (the request works on the file that follows the
\* rows it has inserted), and a step of a request inserts at most the one row
\* of the file it is at.
C23_OneFileAtATime ==
  [][\A p \in DOMAIN procs :
       LET req == procs[p]
           now == procs'[p]
       IN /\ Len(req.rows) = req.i
          /\ \A k \in 1..Len(req.rows) :
               /\ media[req.rows[k]].filename = req.files[k].originalname
               /\ k > 1 => req.rows[k - 1] < req.rows[k]
          /\ (now.i # req.i \/ now.rows # req.rows)
               => /\ now.i = req.i + 1
                  /\ now.rows = Append(req.rows, Len(media) + 1)
                  /\ Len(media') = Len(media) + 1
                  /\ media'[Len(media')].filename = req.files[req.i + 1].originalname
          /\ (req.pc \in {"move", "rename", "thumb", "stat", "insert"})
               => req.i < Len(req.files)]_vars

\* a request has stored its two files while another request was served
C23_TwoFilesStored ==
  \E p \in DOMAIN procs :
    /\ procs[p].status = 200
    /\ Len(procs[p].rows) = 2
    /\ procs[p].files[1] # procs[p].files[2]
    /\ Len(procs) = 2

\* C24: two uploads into the same set, their steps interleaved in any way:
\* once both have answered with success, image_count, video_count and
\* total_size_bytes of the set are the values computed from all its media rows.
C24_StatsAfterBoth ==
  (/\ Len(procs) = 2
   /\ \A p \in DOMAIN procs : procs[p].status = 200
   /\ procs[1].setId = procs[2].setId)
    => StatsMatch(procs[1].setId)

\* both uploads have succeeded, and the one that began first inserted its row
\* after a row of the other
C24_Interleaved ==
  /\ Len(procs) = 2
  /\ \A p \in DOMAIN procs : procs[p].status = 200
  /\ procs[1].setId = procs[2].setId
  /\ procs[2].rows[1] < procs[1].rows[1]

\* C25: createMedia returns the identity of the row it inserted, a defined
\* value that differs between two inserts, and the success response of the
\* upload reports for each file the id of its media row.
C25_ReturnsRowId ==
  (up.pc = "responded" /\ up.success)
    => \A k \in 1..Len(up.ids) :
         /\ up.ids[k] # Undefined
         /\ up.ids[k] \in Ids(media)
         /\ media[up.ids[k]].set_id = up.setId
         /\ \A j \in 1..Len(up.ids) : j # k => up.ids[j] # up.ids[k]

\* C26: the levels of the cascade are looked at one by one: a call without a
\* failure for a media row whose set has both cover paths still leaves the
\* model of the set with a profile image (writing it when the model lacked
\* one), and the studio of the model with a logo when the model has a studio;
\* a call for a set whose model has no studio changes no studio row.
C26_LevelsIndependent ==
  [][(last'.op = "cascade" /\ last'.fault = "none"
        /\ getSetById(media[last'.media].set_id) # {})
       => LET set == sets[media[last'.media].set_id]
              model == models[set.model_id]
              after == models'[set.model_id]
          IN /\ Populated(set.cover_image_path, set.cover_thumb_path)
                  => /\ Populated(after.profile_image_path, after.profile_thumb_path)
                     /\ ~Populated(model.profile_image_path, model.profile_thumb_path)
                          => "model" \in last'.written
                     /\ model.studio_id \in Ids(studios)
                          => Populated(studios'[model.studio_id].logo_path,
                                       studios'[model.studio_id].logo_thumb_path)
             /\ model.studio_id = NullId => studios' = studios]_vars

\* a call found the cover of the set in place and gave the model and the
\* studio their images
C26_BackfilledAboveSet ==
  /\ last.op = "cascade"
  /\ last.fault = "none"
  /\ last.skipped = {"set"}
  /\ last.written = {"model", "studio"}

\* C28: whatever creations, edits and cascade calls have happened, every set,
\* model and studio has its image path and its thumbnail path either both
\* NULL or both set.
C28_PathsPaired ==
  /\ \A k \in Ids(sets) :
       (sets[k].cover_image_path = NullPath) <=> (sets[k].cover_thumb_path = NullPath)
  /\ \A k \in Ids(models) :
       (models[k].profile_image_path = NullPath) <=> (models[k].profile_thumb_path = NullPath)
  /\ \A k \in Ids(studios) :
       (studios[k].logo_path = NullPath) <=> (studios[k].logo_thumb_path = NullPath)

\* the cascade has given a model its profile image next to a set whose cover
\* came with a form and a studio without a logo
C28_MixedOrigins ==
  /\ last.op = "cascade"
  /\ "model" \in last.written
  /\ \E k \in Ids(sets) : sets[k].cover_image_path = <<"sets", sets[k].slug, "cover">>
  /\ \E k \in Ids(studios) : studios[k].logo_path = NullPath

UnderCovers(path) ==
  /\ path # NullPath
  /\ path[1] \in {"covers/sets", "covers/models", "covers/studios"}
  /\ \A j \in Ids(media) :
       path \notin {media[j].original_path, media[j].display_path, media[j].thumb_path}

\* C29: a call of cleanupEntityThumbnails leaves every row of sets, models
\* and studios, and so every cover, profile and logo path, as it was; and
\* every path a cascade call stores is a path under the covers tree that is
\* the path of no media file.
C29_CleanupAndCoverPaths ==
  [][/\ last'.op = "cleanup"
          => studios' = studios /\ models' = models /\ sets' = sets
     /\ last'.op = "cascade"
          => /\ \A k \in Ids(sets) :
                  sets'[k] # sets[k]
                    => UnderCovers(sets'[k].cover_image_path)
                         /\ UnderCovers(sets'[k].cover_thumb_path)
             /\ \A k \in Ids(models) :
                  models'[k] # models[k]
                    => UnderCovers(models'[k].profile_image_path)
                         /\ UnderCovers(models'[k].profile_thumb_path)
             /\ \A k \in Ids(studios) :
                  studios'[k] # studios[k]
                    => UnderCovers(studios'[k].logo_path)
                         /\ UnderCovers(studios'[k].logo_thumb_path)]_vars

\* cleanup has been called for a media row whose set has a cover made by the
\* cascade
C29_CleanupAfterCascade ==
  /\ last.op = "cleanup"
  /\ \E k \in Ids(sets) :
       /\ k = media[last.media].set_id
       /\ sets[k].cover_image_path = <<"covers/sets", sets[k].slug, "cover">>

\* C30: the setup handler creates no user when the users table is not empty:
\* whatever POST /setup requests arrive and however their steps interleave,
\* the table never holds more than one user.
C30_AtMostOneUser == Len(users) <= 1

\* C27: two calls of updateEntityThumbnails, their steps interleaved in any
\* way: no thumbnail is written twice, so no level of the same set is
\* written by both calls.
C27_WrittenOnce ==
  \A p \in DOMAIN procs, q \in DOMAIN procs :
    (p # q /\ media[procs[p].media].set_id = media[procs[q].media].set_id)
      => procs[p].written \cap procs[q].written = {}

====
